---- MODULE Spec2Model ----
(***************************************************************************)
(* corepack: the MessagePack Serializer (src/ser.rs) driven by serde, and  *)
(* the slice entry points to_bytes / from_bytes (src/lib.rs).              *)
(*                                                                         *)
(* Numbers.  TLC integers are 32 bits wide, the program's are 64, so       *)
(*   - an i64 / u64 is four 16-bit limbs <<h, a, b, c>>, most significant  *)
(*     first, value h*2^48 + a*2^32 + b*2^16 + c; the top limb of an i64   *)
(*     is signed (-32768..32767), so numeric order is lexicographic order; *)
(*   - a usize (a length, a count, a cursor) is <<hi, lo>> = hi*2^16 + lo. *)
(* Byte strings are run-length encoded: a sequence of runs <<byte, count>> *)
(* with count a usize > 0 and no two adjacent runs of the same byte, so a  *)
(* 4 GiB payload is one run and equal byte strings are equal values.       *)
(***************************************************************************)
EXTENDS Integers, Sequences, FiniteSets, TLC

----------------------------------------------------------------------------
(* usize arithmetic *)

USize(n) == <<n \div 65536, n % 65536>>

Zero == USize(0)

One == USize(1)

UAdd(x, y) ==
    LET s == x[2] + y[2]
    IN  <<x[1] + y[1] + (s \div 65536), s % 65536>>

USub(x, y) ==
    LET d == x[2] - y[2]
    IN  IF d >= 0 THEN <<x[1] - y[1], d>> ELSE <<x[1] - y[1] - 1, d + 65536>>

ULe(x, y) == x[1] < y[1] \/ (x[1] = y[1] /\ x[2] <= y[2])

ULt(x, y) == x[1] < y[1] \/ (x[1] = y[1] /\ x[2] < y[2])

UMin(x, y) == IF ULe(x, y) THEN x ELSE y

\* `n as u8`, `n as u16`, `n as u32` for a usize n, and usize -> u64
AsU8(n) == n[2] % 256

U64OfUSize(n) == <<0, n[1] \div 65536, n[1] % 65536, n[2]>>

----------------------------------------------------------------------------
(* 64-bit integers as limbs *)

\* the i64 (or, for n >= 0, u64) holding the small integer n
I64(n) ==
    IF n >= 0 THEN <<0, 0, n \div 65536, n % 65536>>
    ELSE <<-1, 65535, (n \div 65536) % 65536, n % 65536>>

\* a <= b on limbs (signed when the top limbs are signed)
LimbLe(x, y) ==
    \/ x[1] < y[1]
    \/ x[1] = y[1] /\ x[2] < y[2]
    \/ x[1] = y[1] /\ x[2] = y[2] /\ x[3] < y[3]
    \/ x[1] = y[1] /\ x[2] = y[2] /\ x[3] = y[3] /\ x[4] <= y[4]

\* the two bytes of a 16-bit limb, big-endian
LimbBE(l) == <<(l % 65536) \div 256, l % 256>>

\* the low w bytes (w in 2, 4, 8) of a 64-bit value, big-endian: what
\* BigEndian::write_{i,u}{16,32,64}(buf, value as _) stores
BEBytes(x, w) ==
    IF w = 2 THEN LimbBE(x[4])
    ELSE IF w = 4 THEN LimbBE(x[3]) \o LimbBE(x[4])
    ELSE LimbBE(x[1]) \o LimbBE(x[2]) \o LimbBE(x[3]) \o LimbBE(x[4])

\* LittleEndian::write_i16(buf, value as i16): low byte first
LEBytes16(x) == <<x[4] % 256, x[4] \div 256>>

\* bitwise or of two bytes
RECURSIVE BitOr(_, _)
BitOr(x, y) ==
    IF x = 0 THEN y
    ELSE IF y = 0 THEN x
    ELSE (IF x % 2 = 1 \/ y % 2 = 1 THEN 1 ELSE 0) + 2 * BitOr(x \div 2, y \div 2)

----------------------------------------------------------------------------
(* run-length encoded byte strings *)

\* a run of n copies of byte b (n a usize)
BRep(b, n) == IF n = Zero THEN <<>> ELSE << <<b, n>> >>

BCat(s, t) ==
    IF s = <<>> THEN t
    ELSE IF t = <<>> THEN s
    ELSE IF s[Len(s)][1] = t[1][1]
         THEN SubSeq(s, 1, Len(s) - 1)
              \o << <<t[1][1], UAdd(s[Len(s)][2], t[1][2])>> >>
              \o Tail(t)
         ELSE s \o t

\* the byte string of an explicit sequence of bytes
RECURSIVE BOf(_)
BOf(q) == IF q = <<>> THEN <<>> ELSE BCat(BRep(q[1], One), BOf(Tail(q)))

RECURSIVE BLen(_)
BLen(s) == IF s = <<>> THEN Zero ELSE UAdd(s[1][2], BLen(Tail(s)))

\* the bytes [p, p+k) of s, for p + k <= BLen(s)
RECURSIVE BSub(_, _, _)
BSub(s, p, k) ==
    IF k = Zero \/ s = <<>> THEN <<>>
    ELSE IF ULe(s[1][2], p) THEN BSub(Tail(s), USub(p, s[1][2]), k)
    ELSE LET avail == USub(s[1][2], p)
             take  == UMin(avail, k)
         IN  BCat(BRep(s[1][1], take), BSub(Tail(s), Zero, USub(k, take)))

\* the explicit bytes of a short byte string
RECURSIVE BSeq(_)
BSeq(s) ==
    IF s = <<>> THEN <<>>
    ELSE IF s[1][2] = One THEN <<s[1][1]>> \o BSeq(Tail(s))
    ELSE <<s[1][1]>> \o BSeq(<< <<s[1][1], USub(s[1][2], One)>> >> \o Tail(s))

----------------------------------------------------------------------------
(* Format table (defs.rs): tag bytes and size-class bounds *)

FIXINT_MIN == -32
FIXINT_MAX == 127
NIL == 192
FALSE_TAG == 194
TRUE_TAG == 195
BIN8 == 196
BIN16 == 197
BIN32 == 198
UINT8 == 204
UINT16 == 205
UINT32 == 206
UINT64 == 207
INT8 == 208
INT16 == 209
INT32 == 210
INT64 == 211
STR8 == 217
STR16 == 218
STR32 == 219
ARRAY16 == 220
ARRAY32 == 221
MAP16 == 222
MAP32 == 223
FIXSTR_MASK == 160
FIXARRAY_MASK == 144
FIXMAP_MASK == 128
U16_BYTES == 2
U32_BYTES == 4
U64_BYTES == 8

MAX_FIXSTR == USize(31)
MAX_STR8 == USize(255)
MAX_STR16 == USize(65535)
MAX_STR32 == <<65535, 65535>>
MAX_BIN8 == USize(255)
MAX_BIN16 == USize(65535)
MAX_BIN32 == <<65535, 65535>>
MAX_FIXARRAY == USize(15)
MAX_ARRAY16 == USize(65535)
MAX_ARRAY32 == <<65535, 65535>>
MAX_FIXMAP == USize(15)
MAX_MAP16 == USize(65535)
MAX_MAP32 == <<65535, 65535>>

\* the primitive types' limits, as i64 / u64
I8_MIN == I64(-128)
I8_MAX == I64(127)
U8_MAX == I64(255)
I16_MIN == I64(-32768)
I16_MAX == I64(32767)
U16_MAX == I64(65535)
I32_MIN == <<-1, 65535, 32768, 0>>
I32_MAX == <<0, 0, 32767, 65535>>
U32_MAX == <<0, 0, 65535, 65535>>

----------------------------------------------------------------------------
(* The Serializer's sinks.                                                 *)
(*                                                                         *)
(* An encoder state S is a record                                          *)
(*   sunk    the bytes the caller's sink closure has accepted              *)
(*   ncalls  how many times the caller's sink closure was invoked          *)
(*   sink    the closure's own state: it accepts `left` more calls when    *)
(*           `limited`, every call otherwise (to_bytes' closure)           *)
(*   rejected, after   whether the closure has returned Err, and how many  *)
(*           times it was invoked after that                               *)
(*   frames  the container states (SeqState / MapState) of the containers  *)
(*           being serialized, outermost first                             *)
(*   res     "running", or how the encode call ended                       *)
(* A target names a Serializer instance by its sink: 0 is the caller's     *)
(* closure, i > 0 the closure of serialize_seq_elt that appends to the     *)
(* buffer of frames[i].                                                    *)
(***************************************************************************)

\* Serializer::output: self.output.call_mut((buf,))
Output(S, tgt, buf) ==
    IF tgt = 0
    THEN IF S.rejected
         THEN [S EXCEPT !.ncalls = @ + 1, !.after = @ + 1]
         ELSE IF S.sink.limited /\ S.sink.left = 0
         THEN [S EXCEPT !.ncalls = @ + 1, !.rejected = TRUE, !.res = "SinkErr"]
         ELSE [S EXCEPT !.ncalls = @ + 1,
                        !.sunk = BCat(@, buf),
                        !.sink.left = IF S.sink.limited THEN @ - 1 ELSE @]
    ELSE [S EXCEPT !.frames[tgt].buffer = BCat(@, buf)]

\* Err(Error::simple(reason)), and a panic
Fail(S, reason) == [S EXCEPT !.res = reason]

\* try!(first); rest
Try(first, rest) == IF first.res # "running" THEN first ELSE rest

\* let mut buf = [tag; buflen]; BigEndian::write_*(&mut buf[1..], payload);
\* self.output(&buf).  byteorder panics when the slice is shorter than the
\* payload; bytes of buf the write does not reach keep the tag value.
WriteTagged(S, tgt, tag, buflen, payload) ==
    IF Len(payload) > buflen - 1
    THEN Fail(S, "Panic")
    ELSE Output(S, tgt, BOf(<<tag>> \o payload
                            \o [i \in 1..(buflen - 1 - Len(payload)) |-> tag]))

----------------------------------------------------------------------------
(* Serializer: scalars *)

serialize_bool(S, tgt, v) ==
    IF v THEN Output(S, tgt, BOf(<<TRUE_TAG>>))
    ELSE Output(S, tgt, BOf(<<FALSE_TAG>>))

\* serialize_i64 with each unsigned class tried before the signed class of
\* the same width
serialize_i64_unsigned_first(S, tgt, value) ==
    IF LimbLe(I64(FIXINT_MIN), value) /\ LimbLe(value, I64(FIXINT_MAX))
    THEN LET buf == LEBytes16(value) IN Output(S, tgt, BOf(SubSeq(buf, 1, 1)))
    ELSE IF LimbLe(I64(0), value) /\ LimbLe(value, U8_MAX)
    THEN LET buf == LEBytes16(value) IN Output(S, tgt, BOf(<<UINT8, buf[1]>>))
    ELSE IF LimbLe(I8_MIN, value) /\ LimbLe(value, I8_MAX)
    THEN LET buf == LEBytes16(value) IN Output(S, tgt, BOf(<<INT8, buf[1]>>))
    ELSE IF LimbLe(I64(0), value) /\ LimbLe(value, U16_MAX)
    THEN WriteTagged(S, tgt, UINT16, U16_BYTES + 1, BEBytes(value, 2))
    ELSE IF LimbLe(I16_MIN, value) /\ LimbLe(value, I16_MAX)
    THEN WriteTagged(S, tgt, INT16, U16_BYTES + 1, BEBytes(value, 2))
    ELSE IF LimbLe(I64(0), value) /\ LimbLe(value, U32_MAX)
    THEN WriteTagged(S, tgt, UINT32, U32_BYTES + 1, BEBytes(value, 4))
    ELSE IF LimbLe(I32_MIN, value) /\ LimbLe(value, I32_MAX)
    THEN WriteTagged(S, tgt, INT32, U32_BYTES + 1, BEBytes(value, 4))
    ELSE WriteTagged(S, tgt, INT64, U64_BYTES + 1, BEBytes(value, 8))

serialize_i64(S, tgt, value) ==
    IF LimbLe(I64(FIXINT_MIN), value) /\ LimbLe(value, I64(FIXINT_MAX))
    THEN LET buf == LEBytes16(value) IN Output(S, tgt, BOf(SubSeq(buf, 1, 1)))
    ELSE IF LimbLe(I8_MIN, value) /\ LimbLe(value, I8_MAX)
    THEN LET buf == LEBytes16(value) IN Output(S, tgt, BOf(<<INT8, buf[1]>>))
    ELSE IF LimbLe(I64(0), value) /\ LimbLe(value, U8_MAX)
    THEN LET buf == LEBytes16(value) IN Output(S, tgt, BOf(<<UINT8, buf[1]>>))
    ELSE IF LimbLe(I16_MIN, value) /\ LimbLe(value, I16_MAX)
    THEN WriteTagged(S, tgt, INT16, U16_BYTES + 1, BEBytes(value, 2))
    ELSE IF LimbLe(I64(0), value) /\ LimbLe(value, U16_MAX)
    THEN WriteTagged(S, tgt, UINT16, U16_BYTES + 1, BEBytes(value, 2))
    ELSE IF LimbLe(I32_MIN, value) /\ LimbLe(value, I32_MAX)
    THEN WriteTagged(S, tgt, INT32, U32_BYTES + 1, BEBytes(value, 4))
    ELSE IF LimbLe(I64(0), value) /\ LimbLe(value, U32_MAX)
    THEN WriteTagged(S, tgt, UINT32, U16_BYTES + 1, BEBytes(value, 4))
    ELSE WriteTagged(S, tgt, INT64, U64_BYTES + 1, BEBytes(value, 8))

serialize_u64(S, tgt, value) ==
    IF LimbLe(value, I64(FIXINT_MAX))
    THEN Output(S, tgt, BOf(<<value[4] % 256>>))
    ELSE IF LimbLe(value, U8_MAX)
    THEN Output(S, tgt, BOf(<<UINT8, value[4] % 256>>))
    ELSE IF LimbLe(value, U16_MAX)
    THEN WriteTagged(S, tgt, UINT16, U16_BYTES + 1, BEBytes(value, 2))
    ELSE IF LimbLe(value, U32_MAX)
    THEN WriteTagged(S, tgt, UINT32, U32_BYTES + 1, BEBytes(value, 4))
    ELSE WriteTagged(S, tgt, UINT64, U64_BYTES + 1, BEBytes(value, 8))

\* serialize_usize(index): value as u64
serialize_usize(S, tgt, value) == serialize_u64(S, tgt, U64OfUSize(value))

\* serialize_str with `<` for `<=` at MAX_FIXSTR
serialize_str_short_fixstr(S, tgt, value) ==
    LET len == BLen(value)
        S1  == IF ULt(len, MAX_FIXSTR)
               THEN Output(S, tgt, BOf(<<BitOr(AsU8(len), FIXSTR_MASK)>>))
               ELSE IF ULe(len, MAX_STR8)
               THEN Output(S, tgt, BOf(<<STR8, AsU8(len)>>))
               ELSE IF ULe(len, MAX_STR16)
               THEN WriteTagged(S, tgt, STR16, U16_BYTES + 1,
                                BEBytes(U64OfUSize(len), 2))
               ELSE IF ULe(len, MAX_STR32)
               THEN WriteTagged(S, tgt, STR32, U32_BYTES + 1,
                                BEBytes(U64OfUSize(len), 4))
               ELSE Fail(S, "TooBig")
    IN  Try(S1, Output(S1, tgt, value))

\* serialize_str without the try! around the header's output
serialize_str_no_try(S, tgt, value) ==
    LET len == BLen(value)
        S1  == IF ULe(len, MAX_FIXSTR)
               THEN Output(S, tgt, BOf(<<BitOr(AsU8(len), FIXSTR_MASK)>>))
               ELSE IF ULe(len, MAX_STR8)
               THEN Output(S, tgt, BOf(<<STR8, AsU8(len)>>))
               ELSE IF ULe(len, MAX_STR16)
               THEN WriteTagged(S, tgt, STR16, U16_BYTES + 1,
                                BEBytes(U64OfUSize(len), 2))
               ELSE IF ULe(len, MAX_STR32)
               THEN WriteTagged(S, tgt, STR32, U32_BYTES + 1,
                                BEBytes(U64OfUSize(len), 4))
               ELSE Fail(S, "TooBig")
    IN  IF S1.res = "TooBig" THEN S1 ELSE Output(S1, tgt, value)

serialize_str(S, tgt, value) ==
    LET len == BLen(value)
        S1  == IF ULe(len, MAX_FIXSTR)
               THEN Output(S, tgt, BOf(<<BitOr(AsU8(len), FIXSTR_MASK)>>))
               ELSE IF ULe(len, MAX_STR8)
               THEN Output(S, tgt, BOf(<<STR8, AsU8(len)>>))
               ELSE IF ULe(len, MAX_STR16)
               THEN WriteTagged(S, tgt, STR16, U16_BYTES + 1,
                                BEBytes(U64OfUSize(len), 2))
               ELSE IF ULe(len, MAX_STR32)
               THEN WriteTagged(S, tgt, STR32, U32_BYTES + 1,
                                BEBytes(U64OfUSize(len), 4))
               ELSE Fail(S, "TooBig")
    IN  Try(S1, Output(S1, tgt, value))

serialize_bytes(S, tgt, value) ==
    LET len == BLen(value)
        S1  == IF ULe(len, MAX_BIN8)
               THEN Output(S, tgt, BOf(<<BIN8, AsU8(len)>>))
               ELSE IF ULe(len, MAX_BIN16)
               THEN WriteTagged(S, tgt, BIN16, U16_BYTES + 1,
                                BEBytes(U64OfUSize(len), 2))
               ELSE IF ULe(len, MAX_BIN32)
               THEN WriteTagged(S, tgt, BIN32, U32_BYTES + 1,
                                BEBytes(U64OfUSize(len), 4))
               ELSE Fail(S, "TooBig")
    IN  Try(S1, Output(S1, tgt, value))

serialize_unit(S, tgt) == Output(S, tgt, BOf(<<NIL>>))

----------------------------------------------------------------------------
(* Serializer: containers.                                                 *)
(*                                                                         *)
(* SeqState = MapState = Option<(usize, Vec<u8>)>.  A frame is a state the *)
(* driver holds between the container's start and its end:                 *)
(*   buffered  FALSE for None, TRUE for Some((size, buffer))               *)
(*   owner     the target of the Serializer the container was started on   *)
(***************************************************************************)

None == [buffered |-> FALSE, size |-> Zero, buffer |-> <<>>]

Some(size, buffer) == [buffered |-> TRUE, size |-> size, buffer |-> buffer]

Push(S, state, self) ==
    [S EXCEPT !.frames = Append(@, [buffered |-> state.buffered,
                                    size |-> state.size,
                                    buffer |-> state.buffer,
                                    owner |-> self])]

Pop(S) == [S EXCEPT !.frames = SubSeq(@, 1, Len(@) - 1)]

Top(S) == S.frames[Len(S.frames)]

\* serialize_seq_elt that serializes the value on self in both branches
ValueTarget_self(S) == Top(S).owner

\* the Serializer an element of the innermost container is serialized on:
\* `target` (the container's buffer) when the state is Some, `self` when None
ValueTarget(S) ==
    IF Top(S).buffered THEN Len(S.frames) ELSE Top(S).owner

\* the Serializer the driver is calling: the caller's, or the one
\* serialize_seq_elt handed to value.serialize
CurTarget(S) == IF S.frames = <<>> THEN 0 ELSE ValueTarget(S)

\* serialize_seq that takes the buffering branch whatever the length hint
serialize_seq_always_buffered(S, self, len) == Push(S, Some(Zero, <<>>), self)

\* len: [some |-> BOOLEAN, size |-> usize]; Ok(state) pushes the state
serialize_seq(S, self, len) ==
    IF len.some
    THEN LET size == len.size
             S1 == IF ULe(size, MAX_FIXARRAY)
                   THEN Output(S, self, BOf(<<BitOr(AsU8(size), FIXARRAY_MASK)>>))
                   ELSE IF ULe(size, MAX_ARRAY16)
                   THEN WriteTagged(S, self, ARRAY16, U16_BYTES + 1,
                                    BEBytes(U64OfUSize(size), 2))
                   ELSE IF ULe(size, MAX_ARRAY32)
                   THEN WriteTagged(S, self, ARRAY32, U32_BYTES + 1,
                                    BEBytes(U64OfUSize(size), 4))
                   ELSE Fail(S, "TooBig")
         IN  Try(S1, Push(S1, None, self))
    ELSE Push(S, Some(Zero, <<>>), self)

\* the part of serialize_seq_elt before value.serialize: the innermost
\* frame is `state`
serialize_seq_elt(S) ==
    IF Top(S).buffered
    THEN [S EXCEPT !.frames[Len(S.frames)].size = UAdd(@, One)]
    ELSE S

\* serialize_seq_end whose size ladder ends in array32 instead of TooBig
serialize_seq_end_unchecked(S, self, state) ==
    IF state.buffered
    THEN LET size == state.size
             S1 == IF ULe(size, MAX_FIXARRAY)
                   THEN Output(S, self, BOf(<<BitOr(AsU8(size), FIXARRAY_MASK)>>))
                   ELSE IF ULe(size, MAX_ARRAY16)
                   THEN WriteTagged(S, self, ARRAY16, U16_BYTES + 1,
                                    BEBytes(U64OfUSize(size), 2))
                   ELSE WriteTagged(S, self, ARRAY32, U32_BYTES + 1,
                                    BEBytes(U64OfUSize(size), 4))
         IN  Try(S1, Output(S1, self, state.buffer))
    ELSE S

\* state is passed by value: the driver's frame is gone when this is called
serialize_seq_end(S, self, state) ==
    IF state.buffered
    THEN LET size == state.size
             S1 == IF ULe(size, MAX_FIXARRAY)
                   THEN Output(S, self, BOf(<<BitOr(AsU8(size), FIXARRAY_MASK)>>))
                   ELSE IF ULe(size, MAX_ARRAY16)
                   THEN WriteTagged(S, self, ARRAY16, U16_BYTES + 1,
                                    BEBytes(U64OfUSize(size), 2))
                   ELSE IF ULe(size, MAX_ARRAY32)
                   THEN WriteTagged(S, self, ARRAY32, U32_BYTES + 1,
                                    BEBytes(U64OfUSize(size), 4))
                   ELSE Fail(S, "TooBig")
         IN  Try(S1, Output(S1, self, state.buffer))
    ELSE S

serialize_tuple(S, self, len) == serialize_seq(S, self, [some |-> TRUE, size |-> len])

serialize_map(S, self, len) ==
    IF len.some
    THEN LET size == len.size
             S1 == IF ULe(size, MAX_FIXMAP)
                   THEN Output(S, self, BOf(<<BitOr(AsU8(size), FIXMAP_MASK)>>))
                   ELSE IF ULe(size, MAX_MAP16)
                   THEN WriteTagged(S, self, MAP16, U16_BYTES + 1,
                                    BEBytes(U64OfUSize(size), 2))
                   ELSE IF ULe(size, MAX_MAP32)
                   THEN WriteTagged(S, self, MAP32, U32_BYTES + 1,
                                    BEBytes(U64OfUSize(size), 4))
                   ELSE Fail(S, "TooBig")
         IN  Try(S1, Push(S1, None, self))
    ELSE Push(S, Some(Zero, <<>>), self)

serialize_map_key(S) == serialize_seq_elt(S)

serialize_map_value(S) == serialize_seq_elt(S)

serialize_map_end(S, self, state) ==
    IF state.buffered
    THEN LET size == state.size
             S1 == IF ULe(size, MAX_FIXMAP)
                   THEN Output(S, self, BOf(<<BitOr(AsU8(size), FIXMAP_MASK)>>))
                   ELSE IF ULe(size, MAX_MAP16)
                   THEN WriteTagged(S, self, MAP16, U16_BYTES + 1,
                                    BEBytes(U64OfUSize(size), 2))
                   ELSE IF ULe(size, MAX_MAP32)
                   THEN WriteTagged(S, self, MAP32, U32_BYTES + 1,
                                    BEBytes(U64OfUSize(size), 4))
                   ELSE Fail(S, "TooBig")
         IN  Try(S1, Output(S1, self, state.buffer))
    ELSE S

serialize_struct(S, self, len) == serialize_map(S, self, [some |-> TRUE, size |-> len])

\* serialize_map_key(state, key) with key: &'static str, then the part of
\* serialize_map_value before value.serialize
serialize_struct_elt(S, key) ==
    LET S1 == serialize_map_key(S)
        S2 == serialize_str(S1, ValueTarget(S1), key)
    IN  Try(S2, serialize_map_value(S2))

serialize_unit_variant(S, self, index) == serialize_usize(S, self, index)

\* serialize_tuple_variant that announces len elements, the index uncounted
serialize_tuple_variant_uncounted(S, self, index, len) ==
    LET S1 == serialize_tuple(S, self, len)
        S2 == serialize_seq_elt(S1)
    IN  Try(S1, serialize_usize(S2, ValueTarget(S2), index))

\* serialize_tuple(len + 1), then the index as the first element
serialize_tuple_variant(S, self, index, len) ==
    LET S1 == serialize_tuple(S, self, UAdd(len, One))
        S2 == serialize_seq_elt(S1)
    IN  Try(S1, serialize_usize(S2, ValueTarget(S2), index))

\* the part of serialize_newtype_variant before value.serialize
serialize_newtype_variant(S, self, index) ==
    LET S1 == serialize_tuple_variant(S, self, index, One)
    IN  Try(S1, serialize_seq_elt(S1))

\* serialize_tuple(2), the index, then serialize_struct: the tuple's state
\* is dropped and the map's state returned
serialize_struct_variant(S, self, index, len) ==
    LET S1 == serialize_tuple(S, self, USize(2))
        S2 == serialize_seq_elt(S1)
        S3 == serialize_usize(S2, ValueTarget(S2), index)
    IN  Try(S1, Try(S3, serialize_struct(Pop(S3), self, len)))

\* serialize_struct_end(state), then serialize_tuple_end(None)
serialize_struct_variant_end(S, self, state) ==
    LET S1 == serialize_map_end(S, self, state)
    IN  Try(S1, serialize_seq_end(S1, self, None))

----------------------------------------------------------------------------
(* Values: what the driver (serde's Serialize impls) asks the Serializer   *)
(* to encode.  A sequence's elements and a map's entries are run-length    *)
(* lists: [e, n] is n copies of element e.                                 *)
(***************************************************************************)

SignedTypes == {"i8", "i16", "i32", "isize", "i64"}

UnsignedTypes == {"u8", "u16", "u32", "usize", "u64"}

Bool(b) == [t |-> "bool", b |-> b]

IntV(ty, limbs) == [t |-> ty, v |-> limbs]

Str(s) == [t |-> "str", s |-> s]

Bin(s) == [t |-> "bytes", s |-> s]

Unit == [t |-> "unit"]

Seq_(known, elems) == [t |-> "seq", known |-> known, elems |-> elems]

Map_(known, entries) == [t |-> "map", known |-> known, entries |-> entries]

Struct(fields) == [t |-> "struct", fields |-> fields]

UnitVariant(i) == [t |-> "unit_variant", index |-> i]

NewtypeVariant(i, x) == [t |-> "newtype_variant", index |-> i, value |-> x]

TupleVariant(i, elems) == [t |-> "tuple_variant", index |-> i, elems |-> elems]

StructVariant(i, fields) == [t |-> "struct_variant", index |-> i, fields |-> fields]

\* n copies of e; one of each of q
Rep(e, n) == [e |-> e, n |-> n]

Each(q) == [i \in 1..Len(q) |-> Rep(q[i], One)]

Entry(k, y, n) == [k |-> k, y |-> y, n |-> n]

Field(name, y) == [name |-> name, y |-> y]

\* iter.len(): the number of elements of a run-length list
RECURSIVE Count(_)
Count(q) == IF q = <<>> THEN Zero ELSE UAdd(q[1].n, Count(Tail(q)))

----------------------------------------------------------------------------
(* Inputs *)

\* the sink rejects its (k+1)-th call, for k up to MaxAccept
MaxAccept == 3

\* variant indices of the generated inputs run from 0 to MaxIndex
MaxIndex == 3

A(n) == BRep(97, n)

HelloWorld == BOf(<<72, 101, 108, 108, 111, 32, 87, 111, 114, 108, 100, 33>>)

TwoPow32 == <<65536, 0>>

SignedEdges ==
    { I64(0), I64(-1), I64(-5), I64(23), I64(-32), I64(-33), I64(-128), I64(-129),
      I64(127), I64(128), I64(154), I64(255), I64(256), I64(304),
      I64(32767), I64(32768), I64(-32768), I64(-32769), I64(65535), I64(65536),
      I32_MAX, <<0, 0, 32768, 0>>, U32_MAX, <<0, 1, 0, 0>>,
      I32_MIN, <<-1, 65535, 32767, 65535>>,
      <<-32768, 0, 0, 0>>, <<32767, 65535, 65535, 65535>> }

UnsignedEdges ==
    { I64(0), I64(23), I64(127), I64(128), I64(154), I64(255), I64(256),
      I64(65535), I64(65536), I32_MAX, <<0, 0, 32768, 0>>, U32_MAX, <<0, 1, 0, 0>>,
      <<32768, 0, 0, 0>>, <<65535, 65535, 65535, 65535>> }

StrLens ==
    { USize(0), USize(1), USize(31), USize(32), USize(44), USize(255), USize(256),
      USize(65535), USize(65536), <<65535, 65535>>, TwoPow32 }

ScalarRoots ==
    {Bool(TRUE), Bool(FALSE), Unit}
    \cup {IntV("i64", x) : x \in SignedEdges}
    \cup {IntV("u64", x) : x \in UnsignedEdges}
    \cup {IntV("i8", I64(-5)), IntV("i16", I64(-233)), IntV("i32", I64(65536)),
          IntV("isize", I64(304)), IntV("u8", I64(23)), IntV("u8", I64(154)),
          IntV("u16", I64(65535)), IntV("u32", U32_MAX), IntV("usize", I64(3))}
    \cup {Str(A(n)) : n \in StrLens} \cup {Str(HelloWorld)}
    \cup {Bin(A(n)) : n \in StrLens}

U8s(q) == [i \in 1..Len(q) |-> IntV("u8", I64(q[i]))]

ISizes(q) == [i \in 1..Len(q) |-> IntV("isize", I64(q[i]))]

\* src/ser.rs tests: fixarr_test, array16_test, fixmap_test
FixArr == Each(U8s(<<5, 8, 20, 231>>))

Array16 ==
    Each(ISizes(<<-5, 16, 101, -45, 184, 89, 62, -233, -33, 304,
                  76, 90, 23, 108, 45, -3, 2>>))

FixMap ==
    << Entry(Str(BOf(<<111, 110, 101>>)), IntV("usize", I64(1)), One),
       Entry(Str(BOf(<<116, 104, 114, 101, 101>>)), IntV("usize", I64(3)), One),
       Entry(Str(BOf(<<116, 119, 111>>)), IntV("usize", I64(2)), One) >>

Ones(n) == <<Rep(IntV("u8", I64(1)), n)>>

OneToOne(n) == <<Entry(IntV("u8", I64(1)), IntV("u8", I64(1)), n)>>

SeqLists ==
    { <<>>, FixArr, Array16, Ones(USize(15)), Ones(USize(16)),
      Ones(USize(300)), Ones(TwoPow32),
      Each(<<Str(HelloWorld), IntV("i64", I64(-129))>>),
      Each(<<IntV("i64", I64(7)), IntV("i64", <<0, 0, 32768, 0>>), IntV("i64", I64(8))>>),
      Each(<<Str(A(TwoPow32))>>) }

MapLists ==
    { <<>>, FixMap, OneToOne(USize(16)), OneToOne(USize(300)), OneToOne(TwoPow32),
      <<Entry(IntV("u8", I64(1)), Str(A(USize(32))), One)>> }

\* lists long enough for the 32-bit headers: streamed element by element
\* when the length is known, tallied in the buffer when it is not
LongKnownSeqLists == {Ones(USize(65536))}

LongKnownMapLists == {OneToOne(USize(65536))}

LongUnknownSeqLists == {Ones(USize(65536)), Ones(<<65535, 65535>>)}

LongUnknownMapLists == {OneToOne(USize(65536)), OneToOne(<<32768, 0>>)}

Nested ==
    { Seq_(k1, Each(<<IntV("u8", I64(9)), Seq_(k2, Each(U8s(<<1, 200>>))),
                      Map_(k2, <<Entry(Unit, Bool(TRUE), One)>>)>>))
        : k1 \in BOOLEAN, k2 \in BOOLEAN }

\* the test type T (src/lib.rs): A(usize), B, C(i8, i8), D { a: isize, b: String }
FieldsD ==
    << Field(BOf(<<97>>), IntV("isize", I64(9001))),
       Field(BOf(<<98>>), Str(HelloWorld)) >>

Indices == {USize(i) : i \in 0..MaxIndex} \cup {USize(128), USize(65536)}

Payloads ==
    { IntV("usize", I64(42)), IntV("i64", <<0, 0, 32768, 0>>), Str(HelloWorld),
      Seq_(FALSE, Each(U8s(<<1, 2>>))) }

VariantRoots ==
    {UnitVariant(i) : i \in Indices}
    \cup {NewtypeVariant(i, x) : i \in Indices, x \in Payloads}
    \cup {TupleVariant(i, q) : i \in Indices,
            q \in {<<>>, <<IntV("i8", I64(-3)), IntV("i8", I64(22))>>,
                   <<Str(HelloWorld), Unit, IntV("u64", I64(200))>>}}
    \cup {StructVariant(i, f) : i \in Indices, f \in {<<>>, FieldsD}}

Roots ==
    ScalarRoots
    \cup {Seq_(k, q) : k \in BOOLEAN, q \in SeqLists}
    \cup {Map_(k, q) : k \in BOOLEAN, q \in MapLists}
    \cup {Seq_(TRUE, q) : q \in LongKnownSeqLists}
    \cup {Map_(TRUE, q) : q \in LongKnownMapLists}
    \cup {Seq_(FALSE, q) : q \in LongUnknownSeqLists}
    \cup {Map_(FALSE, q) : q \in LongUnknownMapLists}
    \cup Nested
    \cup {Struct(FieldsD), Struct(<<>>)}
    \cup VariantRoots

Sinks ==
    {[limited |-> FALSE, left |-> 0]}
    \cup {[limited |-> TRUE, left |-> k] : k \in 0..MaxAccept}

----------------------------------------------------------------------------
(* from_bytes: the source closure over (bytes, position) *)

NoRead == [n |-> 0, p |-> Zero, k |-> Zero, ok |-> TRUE, got |-> <<>>]

\* the source closure with `>=` for `>`: a read that ends exactly at the end
\* of the slice is refused
Source_ge(slice, pos, k) ==
    IF ULe(BLen(slice), UAdd(pos, k))
    THEN [ok |-> FALSE, got |-> <<>>, position |-> pos]
    ELSE [ok |-> TRUE, got |-> BSub(slice, pos, k), position |-> UAdd(pos, k)]

\* |buf: &mut [u8]| with buf.len() = k: Err(EndOfStream) when the read would
\* run past the end, else the bytes at the cursor, and the cursor advanced
Source(slice, pos, k) ==
    IF ULt(BLen(slice), UAdd(pos, k))
    THEN [ok |-> FALSE, got |-> <<>>, position |-> pos]
    ELSE [ok |-> TRUE, got |-> BSub(slice, pos, k), position |-> UAdd(pos, k)]

----------------------------------------------------------------------------
(* Decoder (de.rs), for the scalar shapes: a tag byte, then the tag's      *)
(* fixed-size big-endian field, then for a string its payload.  A decoded  *)
(* integer is four limbs with the top limb in -32768..65535.               *)
(***************************************************************************)

Idle == [pc |-> "idle", kind |-> "none", width |-> 0, len |-> Zero]

NoValue == [t |-> "none"]

\* what the tag byte announces: a value, a field to read, or a failure
Classify(b) ==
    IF b <= 127 THEN [is |-> "int", v |-> I64(b)]
    ELSE IF b >= 224 THEN [is |-> "int", v |-> I64(b - 256)]
    ELSE IF b >= 160 /\ b <= 191 THEN [is |-> "str", len |-> USize(b - 160)]
    ELSE IF b = NIL THEN [is |-> "unit"]
    ELSE IF b = FALSE_TAG THEN [is |-> "bool", b |-> FALSE]
    ELSE IF b = TRUE_TAG THEN [is |-> "bool", b |-> TRUE]
    ELSE IF b \in {UINT8, UINT16, UINT32, UINT64}
    THEN [is |-> "field", kind |-> "uint",
          width |-> CASE b = UINT8 -> 1 [] b = UINT16 -> 2 [] b = UINT32 -> 4
                      [] OTHER -> 8]
    ELSE IF b \in {INT8, INT16, INT32, INT64}
    THEN [is |-> "field", kind |-> "int",
          width |-> CASE b = INT8 -> 1 [] b = INT16 -> 2 [] b = INT32 -> 4
                      [] OTHER -> 8]
    ELSE IF b \in {STR8, STR16, STR32}
    THEN [is |-> "field", kind |-> "strlen",
          width |-> CASE b = STR8 -> 1 [] b = STR16 -> 2 [] OTHER -> 4]
    ELSE IF (b >= 128 /\ b <= 159) \/ b \in {BIN8, BIN16, BIN32, 202, 203,
                                              ARRAY16, ARRAY32, MAP16, MAP32}
    THEN [is |-> "other"]
    ELSE [is |-> "invalid"]

\* the unsigned value of a big-endian field of 1, 2, 4 or 8 bytes
FieldU(q) ==
    IF Len(q) = 1 THEN <<0, 0, 0, q[1]>>
    ELSE IF Len(q) = 2 THEN <<0, 0, 0, q[1] * 256 + q[2]>>
    ELSE IF Len(q) = 4 THEN <<0, 0, q[1] * 256 + q[2], q[3] * 256 + q[4]>>
    ELSE <<q[1] * 256 + q[2], q[3] * 256 + q[4], q[5] * 256 + q[6], q[7] * 256 + q[8]>>

\* its two's-complement value
FieldI(q) ==
    LET u == FieldU(q)
    IN  IF q[1] < 128 THEN u
        ELSE IF Len(q) = 1 THEN <<-1, 65535, 65535, 65280 + q[1]>>
        ELSE IF Len(q) = 2 THEN <<-1, 65535, 65535, u[4]>>
        ELSE IF Len(q) = 4 THEN <<-1, 65535, u[3], u[4]>>
        ELSE <<u[1] - 65536, u[2], u[3], u[4]>>

\* the limits of the integer types, in the decoded form
TypeMin(ty) ==
    CASE ty = "i8" -> I8_MIN [] ty = "i16" -> I16_MIN [] ty = "i32" -> I32_MIN
      [] ty \in {"i64", "isize"} -> <<-32768, 0, 0, 0>>
      [] OTHER -> I64(0)

TypeMax(ty) ==
    CASE ty = "i8" -> I8_MAX [] ty = "i16" -> I16_MAX [] ty = "i32" -> I32_MAX
      [] ty \in {"i64", "isize"} -> <<32767, 65535, 65535, 65535>>
      [] ty = "u8" -> U8_MAX [] ty = "u16" -> U16_MAX [] ty = "u32" -> U32_MAX
      [] OTHER -> <<65535, 65535, 65535, 65535>>

\* the visitor of shape ty receives the integer x
VisitInt(ty, x) ==
    IF ty \in SignedTypes \cup UnsignedTypes
       /\ LimbLe(TypeMin(ty), x) /\ LimbLe(x, TypeMax(ty))
    THEN [res |-> "Ok", val |-> IntV(ty, x)]
    ELSE [res |-> "TypeMismatch", val |-> NoValue]

\* the usize a length field holds
FieldLen(q) == LET u == FieldU(q) IN <<u[2] * 65536 + u[3], u[4]>>

----------------------------------------------------------------------------
(* State *)

VARIABLES
    root,       \* the value handed to the encode call
    ctl,        \* the driver's pending calls on the Serializer, next first
    frames,     \* the container states the driver holds
    sunk,       \* bytes the caller's sink has accepted
    ncalls,     \* invocations of the caller's sink
    sink,       \* the caller's sink
    rejected,   \* the caller's sink has returned Err
    after,      \* invocations of the caller's sink after it returned Err
    res,        \* "running", "Ok", "TooBig", "SinkErr", "Panic"
    bytes,      \* from_bytes: the slice
    position,   \* from_bytes: the cursor of the source closure
    rd,         \* the last read of the source closure, and how many there were
    de,         \* the Decoder: where it is in the value it is decoding
    dval,       \* the value the Decoder has built
    dres        \* "idle", "running", "Ok", "EndOfStream", "Invalid", "TypeMismatch"

encoder == <<root, ctl, frames, sunk, ncalls, sink, rejected, after, res>>

decoder == <<bytes, position, rd, de, dval, dres>>

vars == <<root, ctl, frames, sunk, ncalls, sink, rejected, after, res,
          bytes, position, rd, de, dval, dres>>

Cur ==
    [sunk |-> sunk, ncalls |-> ncalls, sink |-> sink, rejected |-> rejected,
     after |-> after, frames |-> frames, res |-> res]

\* the handler returned S; the driver goes on with `next`, or propagates Err
Commit(S, next) ==
    /\ sunk' = S.sunk
    /\ ncalls' = S.ncalls
    /\ sink' = S.sink
    /\ rejected' = S.rejected
    /\ after' = S.after
    /\ frames' = S.frames
    /\ res' = S.res
    /\ ctl' = IF S.res = "running" THEN next ELSE <<>>
    /\ root' = root
    /\ UNCHANGED decoder

Ser(x) == [op |-> "ser", x |-> x]

Elts(q) == [i \in 1..Len(q) |-> [op |-> "elt", x |-> q[i].e, n |-> q[i].n]]

Entries(q) ==
    [i \in 1..Len(q) |-> [op |-> "entry", k |-> q[i].k, y |-> q[i].y, n |-> q[i].n]]

Fields(q) == [i \in 1..Len(q) |-> [op |-> "field", name |-> q[i].name, y |-> q[i].y]]

End(op) == [op |-> op]

Calling(op) == res = "running" /\ ctl # <<>> /\ Head(ctl).op = op

Serializing(ts) == Calling("ser") /\ Head(ctl).x.t \in ts

Init ==
    /\ root \in Roots
    /\ sink \in Sinks
    /\ ctl = <<Ser(root)>>
    /\ frames = <<>>
    /\ sunk = <<>>
    /\ ncalls = 0
    /\ rejected = FALSE
    /\ after = 0
    /\ res = "running"
    /\ bytes = <<>>
    /\ position = Zero
    /\ rd = NoRead
    /\ de = Idle
    /\ dval = NoValue
    /\ dres = "idle"

----------------------------------------------------------------------------
(* Actions: one per Serializer method the driver calls *)

SerializeBool ==
    /\ Serializing({"bool"})
    /\ Commit(serialize_bool(Cur, CurTarget(Cur), Head(ctl).x.b), Tail(ctl))

\* serialize_i64, and serialize_isize / i8 / i16 / i32, which widen to it
SerializeI64 ==
    /\ Serializing(SignedTypes)
    /\ Commit(serialize_i64(Cur, CurTarget(Cur), Head(ctl).x.v), Tail(ctl))

\* serialize_u64, and serialize_usize / u8 / u16 / u32, which widen to it
SerializeU64 ==
    /\ Serializing(UnsignedTypes)
    /\ Commit(serialize_u64(Cur, CurTarget(Cur), Head(ctl).x.v), Tail(ctl))

SerializeStr ==
    /\ Serializing({"str"})
    /\ Commit(serialize_str(Cur, CurTarget(Cur), Head(ctl).x.s), Tail(ctl))

SerializeBytes ==
    /\ Serializing({"bytes"})
    /\ Commit(serialize_bytes(Cur, CurTarget(Cur), Head(ctl).x.s), Tail(ctl))

SerializeUnit ==
    /\ Serializing({"unit"})
    /\ Commit(serialize_unit(Cur, CurTarget(Cur)), Tail(ctl))

\* the driver passes Some(iter.len()) when the length is known
LenHint(known, q) == [some |-> known, size |-> IF known THEN Count(q) ELSE Zero]

SerializeSeq ==
    /\ Serializing({"seq"})
    /\ LET x == Head(ctl).x
       IN  Commit(serialize_seq(Cur, CurTarget(Cur), LenHint(x.known, x.elems)),
                  Elts(x.elems) \o <<End("seq_end")>> \o Tail(ctl))

\* a run of n > 1 one-byte elements in a Some state: n calls of
\* serialize_seq_elt, none of which reaches the caller's sink, taken together
IsFixU(x) == x.t \in UnsignedTypes /\ LimbLe(x.v, I64(FIXINT_MAX))

InBuffer == frames # <<>> /\ frames[Len(frames)].buffered

BulkElt(i) == ULt(One, i.n) /\ InBuffer /\ IsFixU(i.x)

BulkEntry(i) ==
    ULt(One, i.n) /\ InBuffer /\ IsFixU(i.k) /\ IsFixU(i.y) /\ i.k.v = i.y.v

\* n times: size += 1, and one byte b appended to the buffer
Tally(S, b, n) ==
    [S EXCEPT !.frames[Len(S.frames)].size = UAdd(@, n),
              !.frames[Len(S.frames)].buffer = BCat(@, BRep(b, n))]

\* serialize_seq_elt (and tuple_elt, tuple_struct_elt, tuple_variant_elt),
\* up to its call of value.serialize
SerializeSeqElt ==
    /\ Calling("elt")
    /\ ~BulkElt(Head(ctl))
    /\ LET i == Head(ctl)
           more == IF ULt(One, i.n)
                   THEN <<[op |-> "elt", x |-> i.x, n |-> USub(i.n, One)]>>
                   ELSE <<>>
       IN  Commit(serialize_seq_elt(Cur), <<Ser(i.x)>> \o more \o Tail(ctl))

SerializeSeqEltRun ==
    /\ Calling("elt")
    /\ BulkElt(Head(ctl))
    /\ LET i == Head(ctl)
       IN  Commit(Tally(Cur, i.x.v[4] % 256, i.n), Tail(ctl))

\* serialize_seq_end (and tuple_end, tuple_struct_end, tuple_variant_end)
SerializeSeqEnd ==
    /\ Calling("seq_end")
    /\ Commit(serialize_seq_end(Pop(Cur), Top(Cur).owner, Top(Cur)), Tail(ctl))

SerializeMap ==
    /\ Serializing({"map"})
    /\ LET x == Head(ctl).x
       IN  Commit(serialize_map(Cur, CurTarget(Cur), LenHint(x.known, x.entries)),
                  Entries(x.entries) \o <<End("map_end")>> \o Tail(ctl))

SerializeMapKey ==
    /\ Calling("entry")
    /\ ~BulkEntry(Head(ctl))
    /\ LET i == Head(ctl)
           more == IF ULt(One, i.n)
                   THEN <<[op |-> "entry", k |-> i.k, y |-> i.y, n |-> USub(i.n, One)]>>
                   ELSE <<>>
       IN  Commit(serialize_map_key(Cur),
                  <<Ser(i.k), [op |-> "val", y |-> i.y]>> \o more \o Tail(ctl))

SerializeMapValue ==
    /\ Calling("val")
    /\ Commit(serialize_map_value(Cur), <<Ser(Head(ctl).y)>> \o Tail(ctl))

\* n entries of one-byte key and value in a Some state, taken together
SerializeMapEntryRun ==
    /\ Calling("entry")
    /\ BulkEntry(Head(ctl))
    /\ LET i == Head(ctl)
       IN  Commit(Tally(Cur, i.k.v[4] % 256, UAdd(i.n, i.n)), Tail(ctl))

SerializeMapEnd ==
    /\ Calling("map_end")
    /\ Commit(serialize_map_end(Pop(Cur), Top(Cur).owner, Top(Cur)), Tail(ctl))

SerializeStruct ==
    /\ Serializing({"struct"})
    /\ LET x == Head(ctl).x
       IN  Commit(serialize_struct(Cur, CurTarget(Cur), USize(Len(x.fields))),
                  Fields(x.fields) \o <<End("struct_end")>> \o Tail(ctl))

\* serialize_struct_elt and serialize_struct_variant_elt
SerializeStructElt ==
    /\ Calling("field")
    /\ Commit(serialize_struct_elt(Cur, Head(ctl).name),
              <<Ser(Head(ctl).y)>> \o Tail(ctl))

\* serialize_struct_end: serialize_map_end
SerializeStructEnd ==
    /\ Calling("struct_end")
    /\ Commit(serialize_map_end(Pop(Cur), Top(Cur).owner, Top(Cur)), Tail(ctl))

SerializeUnitVariant ==
    /\ Serializing({"unit_variant"})
    /\ Commit(serialize_unit_variant(Cur, CurTarget(Cur), Head(ctl).x.index), Tail(ctl))

SerializeNewtypeVariant ==
    /\ Serializing({"newtype_variant"})
    /\ LET x == Head(ctl).x
       IN  Commit(serialize_newtype_variant(Cur, CurTarget(Cur), x.index),
                  <<Ser(x.value), End("seq_end")>> \o Tail(ctl))

SerializeTupleVariant ==
    /\ Serializing({"tuple_variant"})
    /\ LET x == Head(ctl).x
       IN  Commit(serialize_tuple_variant(Cur, CurTarget(Cur), x.index,
                                          USize(Len(x.elems))),
                  Elts(Each(x.elems)) \o <<End("seq_end")>> \o Tail(ctl))

SerializeStructVariant ==
    /\ Serializing({"struct_variant"})
    /\ LET x == Head(ctl).x
       IN  Commit(serialize_struct_variant(Cur, CurTarget(Cur), x.index,
                                           USize(Len(x.fields))),
                  Fields(x.fields) \o <<End("struct_variant_end")>> \o Tail(ctl))

SerializeStructVariantEnd ==
    /\ Calling("struct_variant_end")
    /\ Commit(serialize_struct_variant_end(Pop(Cur), Top(Cur).owner, Top(Cur)),
              Tail(ctl))

\* value.serialize(&mut ser) returned Ok(()): to_bytes returns Ok(bytes)
Return ==
    /\ res = "running"
    /\ ctl = <<>>
    /\ res' = "Ok"
    /\ UNCHANGED <<root, ctl, frames, sunk, ncalls, sink, rejected, after>>
    /\ UNCHANGED decoder

----------------------------------------------------------------------------
(* Actions: from_bytes and the reads its Decoder makes *)

\* the shapes V the Decoder is modelled for
ScalarShapes == {"bool", "str"} \cup SignedTypes \cup UnsignedTypes

\* from_bytes is handed the whole encoding (test_through) or a truncation
Cuts(len) ==
    {Zero, len}
    \cup (IF ULe(One, len) THEN {One, USub(len, One)} ELSE {})
    \cup (IF ULe(USize(2), len) THEN {USize(2)} ELSE {})

\* one invocation of the source closure for k bytes
Read(k, r) ==
    /\ r = Source(bytes, position, k)
    /\ position' = r.position
    /\ rd' = [n |-> rd.n + 1, p |-> position, k |-> k, ok |-> r.ok, got |-> r.got]

Finish(result, value) ==
    /\ dres' = result
    /\ dval' = value
    /\ de' = [de EXCEPT !.pc = "done"]

Await(pc, kind, width, len) ==
    /\ de' = [pc |-> pc, kind |-> kind, width |-> width, len |-> len]
    /\ UNCHANGED <<dres, dval>>

FromBytes ==
    /\ res = "Ok"
    /\ dres = "idle"
    /\ root.t \in ScalarShapes
    /\ \E cut \in Cuts(BLen(sunk)) :
          bytes' = BSub(sunk, Zero, cut)
    /\ position' = Zero
    /\ de' = [Idle EXCEPT !.pc = "tag"]
    /\ dres' = "running"
    /\ UNCHANGED <<rd, dval>>
    /\ UNCHANGED encoder

DecodeTag ==
    /\ dres = "running"
    /\ de.pc = "tag"
    /\ \E r \in {Source(bytes, position, One)} :
          /\ Read(One, r)
          /\ IF ~r.ok THEN Finish("EndOfStream", NoValue)
             ELSE LET c == Classify(BSeq(r.got)[1])
                      isInt == root.t \in SignedTypes \cup UnsignedTypes
                  IN  CASE c.is = "invalid" -> Finish("Invalid", NoValue)
                        [] c.is = "int" /\ isInt ->
                             LET v == VisitInt(root.t, c.v) IN Finish(v.res, v.val)
                        [] c.is = "bool" /\ root.t = "bool" -> Finish("Ok", Bool(c.b))
                        [] c.is = "str" /\ root.t = "str" ->
                             Await("payload", "str", 0, c.len)
                        [] c.is = "field" /\ c.kind \in {"uint", "int"} /\ isInt ->
                             Await("field", c.kind, c.width, Zero)
                        [] c.is = "field" /\ c.kind = "strlen" /\ root.t = "str" ->
                             Await("field", c.kind, c.width, Zero)
                        [] OTHER -> Finish("TypeMismatch", NoValue)
    /\ UNCHANGED bytes
    /\ UNCHANGED encoder

DecodeField ==
    /\ dres = "running"
    /\ de.pc = "field"
    /\ \E r \in {Source(bytes, position, USize(de.width))} :
          /\ Read(USize(de.width), r)
          /\ IF ~r.ok THEN Finish("EndOfStream", NoValue)
             ELSE LET q == BSeq(r.got)
                  IN  CASE de.kind = "uint" ->
                             LET v == VisitInt(root.t, FieldU(q)) IN Finish(v.res, v.val)
                        [] de.kind = "int" ->
                             LET v == VisitInt(root.t, FieldI(q)) IN Finish(v.res, v.val)
                        [] OTHER -> Await("payload", "str", 0, FieldLen(q))
    /\ UNCHANGED bytes
    /\ UNCHANGED encoder

DecodePayload ==
    /\ dres = "running"
    /\ de.pc = "payload"
    /\ \E r \in {Source(bytes, position, de.len)} :
          /\ Read(de.len, r)
          /\ IF ~r.ok THEN Finish("EndOfStream", NoValue)
             ELSE Finish("Ok", Str(r.got))
    /\ UNCHANGED bytes
    /\ UNCHANGED encoder

Next ==
    \/ SerializeBool
    \/ SerializeI64
    \/ SerializeU64
    \/ SerializeStr
    \/ SerializeBytes
    \/ SerializeUnit
    \/ SerializeSeq
    \/ SerializeSeqElt
    \/ SerializeSeqEltRun
    \/ SerializeSeqEnd
    \/ SerializeMap
    \/ SerializeMapKey
    \/ SerializeMapValue
    \/ SerializeMapEntryRun
    \/ SerializeMapEnd
    \/ SerializeStruct
    \/ SerializeStructElt
    \/ SerializeStructEnd
    \/ SerializeUnitVariant
    \/ SerializeNewtypeVariant
    \/ SerializeTupleVariant
    \/ SerializeStructVariant
    \/ SerializeStructVariantEnd
    \/ Return
    \/ FromBytes
    \/ DecodeTag
    \/ DecodeField
    \/ DecodePayload

Spec == Init /\ [][Next]_vars

----------------------------------------------------------------------------
(* The encoding of a value taken alone: what the Serializer delivers to a  *)
(* sink that accepts every call, up to the point where the encode fails.   *)
(* A run of n > 1 one-byte elements is taken together, as in the actions.  *)
(***************************************************************************)

Fresh ==
    [sunk |-> <<>>, ncalls |-> 0, sink |-> [limited |-> FALSE, left |-> 0],
     rejected |-> FALSE, after |-> 0, frames |-> <<>>, res |-> "running"]

RECURSIVE Encode(_, _, _)
RECURSIVE EncodeElts(_, _)
RECURSIVE EncodeEntries(_, _)
RECURSIVE EncodeFields(_, _)

Encode(S, self, x) ==
    IF S.res # "running" THEN S
    ELSE CASE x.t = "bool" -> serialize_bool(S, self, x.b)
           [] x.t \in SignedTypes -> serialize_i64(S, self, x.v)
           [] x.t \in UnsignedTypes -> serialize_u64(S, self, x.v)
           [] x.t = "str" -> serialize_str(S, self, x.s)
           [] x.t = "bytes" -> serialize_bytes(S, self, x.s)
           [] x.t = "unit" -> serialize_unit(S, self)
           [] x.t = "seq" ->
                LET S1 == serialize_seq(S, self, LenHint(x.known, x.elems))
                    S2 == EncodeElts(S1, x.elems)
                IN  Try(S1, Try(S2, serialize_seq_end(Pop(S2), Top(S2).owner, Top(S2))))
           [] x.t = "map" ->
                LET S1 == serialize_map(S, self, LenHint(x.known, x.entries))
                    S2 == EncodeEntries(S1, x.entries)
                IN  Try(S1, Try(S2, serialize_map_end(Pop(S2), Top(S2).owner, Top(S2))))
           [] x.t = "struct" ->
                LET S1 == serialize_struct(S, self, USize(Len(x.fields)))
                    S2 == EncodeFields(S1, x.fields)
                IN  Try(S1, Try(S2, serialize_map_end(Pop(S2), Top(S2).owner, Top(S2))))
           [] x.t = "unit_variant" -> serialize_unit_variant(S, self, x.index)
           [] x.t = "newtype_variant" ->
                LET S1 == serialize_newtype_variant(S, self, x.index)
                    S2 == Encode(S1, ValueTarget(S1), x.value)
                IN  Try(S1, Try(S2, serialize_seq_end(Pop(S2), Top(S2).owner, Top(S2))))
           [] x.t = "tuple_variant" ->
                LET S1 == serialize_tuple_variant(S, self, x.index, USize(Len(x.elems)))
                    S2 == EncodeElts(S1, Each(x.elems))
                IN  Try(S1, Try(S2, serialize_seq_end(Pop(S2), Top(S2).owner, Top(S2))))
           [] x.t = "struct_variant" ->
                LET S1 == serialize_struct_variant(S, self, x.index, USize(Len(x.fields)))
                    S2 == EncodeFields(S1, x.fields)
                IN  Try(S1, Try(S2, serialize_struct_variant_end(
                                        Pop(S2), Top(S2).owner, Top(S2))))

\* the elements q of the innermost frame of S
EncodeElts(S, q) ==
    IF q = <<>> \/ S.res # "running" THEN S
    ELSE LET r == q[1]
         IN  IF ULt(One, r.n) /\ IsFixU(r.e)
             THEN EncodeElts(
                    IF Top(S).buffered THEN Tally(S, r.e.v[4] % 256, r.n)
                    ELSE Output(S, ValueTarget(S), BRep(r.e.v[4] % 256, r.n)),
                    Tail(q))
             ELSE LET S1 == serialize_seq_elt(S)
                      S2 == Encode(S1, ValueTarget(S1), r.e)
                      more == IF ULt(One, r.n) THEN <<Rep(r.e, USub(r.n, One))>>
                              ELSE <<>>
                  IN  EncodeElts(S2, more \o Tail(q))

EncodeEntries(S, q) ==
    IF q = <<>> \/ S.res # "running" THEN S
    ELSE LET r == q[1]
         IN  IF ULt(One, r.n) /\ IsFixU(r.k) /\ IsFixU(r.y) /\ r.k.v = r.y.v
             THEN EncodeEntries(
                    IF Top(S).buffered THEN Tally(S, r.k.v[4] % 256, UAdd(r.n, r.n))
                    ELSE Output(S, ValueTarget(S), BRep(r.k.v[4] % 256, UAdd(r.n, r.n))),
                    Tail(q))
             ELSE LET S1 == serialize_map_key(S)
                      S2 == Encode(S1, ValueTarget(S1), r.k)
                      S3 == serialize_map_value(S2)
                      S4 == Encode(S3, ValueTarget(S3), r.y)
                      more == IF ULt(One, r.n) THEN <<Entry(r.k, r.y, USub(r.n, One))>>
                              ELSE <<>>
                  IN  EncodeEntries(Try(S2, S4), more \o Tail(q))

EncodeFields(S, q) ==
    IF q = <<>> \/ S.res # "running" THEN S
    ELSE LET S1 == serialize_struct_elt(S, q[1].name)
             S2 == Encode(S1, ValueTarget(S1), q[1].y)
         IN  EncodeFields(Try(S1, S2), Tail(q))

Delivered(x) == Encode(Fresh, 0, x).sunk

IsPrefix(s, t) == ULe(BLen(s), BLen(t)) /\ BSub(t, Zero, BLen(s)) = s

----------------------------------------------------------------------------
(* Properties *)

IsSigned(x) == x.t \in SignedTypes

IsUnsigned(x) == x.t \in UnsignedTypes

Between(lo, x, hi) == LimbLe(lo, x) /\ LimbLe(x, hi)

\* the encode call is to_bytes: its sink accepts every call
ToBytes == ~sink.limited

\* the encode call has returned
Handled == res # "running"

\* the bytes the sink holds, written out
Sunk == BSeq(sunk)

I64_MIN == <<-32768, 0, 0, 0>>

I64_MAX == <<32767, 65535, 65535, 65535>>

U64_MAX == <<65535, 65535, 65535, 65535>>

TwoPow31 == <<0, 0, 32768, 0>>

(***************************************************************************)
(* C1: round trip.  For every supported value (a boolean, a signed or an   *)
(* unsigned 64-bit integer, a string of at most 2^32 - 1 bytes), to_bytes  *)
(* succeeds, and from_bytes of its result succeeds with an equal value.    *)
(***************************************************************************)
Supported(x) ==
    \/ x.t = "bool"
    \/ IsSigned(x)
    \/ IsUnsigned(x)
    \/ x.t = "str" /\ ULe(BLen(x.s), MAX_STR32)

C1_RoundTrip ==
    (Supported(root) /\ ToBytes) =>
        /\ res \in {"running", "Ok"}
        /\ (bytes = sunk /\ dres \notin {"idle", "running"}) =>
               (dres = "Ok" /\ dval = root)

(***************************************************************************)
(* C2: minimality.  An integer handed to serialize_i64 or serialize_u64 is *)
(* delivered in 1 byte when it is a fixint (signed -32..127, unsigned      *)
(* 0..127), else in 2, 3, 5 or 9 bytes: the first of the 8-, 16-, 32- and  *)
(* 64-bit classes that holds it; 23 is 17, -5 is FB, 154 is CC 9A.         *)
(***************************************************************************)
MinBytes(x) ==
    IF Between(I64(IF IsSigned(x) THEN -32 ELSE 0), x.v, I64(127)) THEN 1
    ELSE IF Between(I64(-128), x.v, I64(255)) THEN 2
    ELSE IF Between(I64(-32768), x.v, I64(65535)) THEN 3
    ELSE IF Between(I32_MIN, x.v, U32_MAX) THEN 5
    ELSE 9

C2_Minimality ==
    ((IsSigned(root) \/ IsUnsigned(root)) /\ ToBytes /\ Handled) =>
        /\ BLen(sunk) = USize(MinBytes(root))
        /\ root.v = I64(23) => Sunk = <<23>>
        /\ root.v = I64(-5) => Sunk = <<251>>
        /\ root.v = I64(154) => Sunk = <<204, 154>>

(***************************************************************************)
(* C3: serialize_i64 does not fail on any input, and emits the fixint byte *)
(* or a tag and the big-endian payload of that tag's width whose value is  *)
(* the input; a value in 2^31 .. 2^32 - 1 is the uint32 tag (CE) and its   *)
(* four bytes.                                                             *)
(***************************************************************************)
TagWidth(b) ==
    CASE b \in {204, 208} -> 1
      [] b \in {205, 209} -> 2
      [] b \in {206, 210} -> 4
      [] b \in {207, 211} -> 8
      [] OTHER -> 0

\* the integer the bytes q spell: a fixint, or a tag and its payload
Spelled(q) ==
    IF Len(q) = 1 /\ (q[1] <= 127 \/ q[1] >= 224)
    THEN {I64(IF q[1] <= 127 THEN q[1] ELSE q[1] - 256)}
    ELSE IF Len(q) >= 2 /\ TagWidth(q[1]) = Len(q) - 1
    THEN {IF q[1] \in {204, 205, 206, 207} THEN FieldU(Tail(q)) ELSE FieldI(Tail(q))}
    ELSE {}

C3_I64Total ==
    (IsSigned(root) /\ ToBytes /\ Handled) =>
        /\ res = "Ok"
        /\ Spelled(Sunk) = {root.v}
        /\ Between(TwoPow31, root.v, U32_MAX) =>
               Sunk = <<206>> \o LimbBE(root.v[3]) \o LimbBE(root.v[4])

(***************************************************************************)
(* C4 as stated: the encoding of a non-negative signed input outside the   *)
(* fixint range starts with the uint8 tag in 128..255, the uint16 tag in   *)
(* 256..65535 and the uint32 tag in 65536..2^32-1.                         *)
(***************************************************************************)
Encoded == IsSigned(root) /\ ToBytes /\ res = "Ok"

FirstTagIs(tag) == sunk # <<>> /\ sunk[1][1] = tag

----------------------------------------------------------------------------
(* The wire format's headers, byte by byte *)

\* a length or count n < 2^32 as a big-endian field of 2 or 4 bytes
Field16(n) == <<n[2] \div 256, n[2] % 256>>

Field32(n) == <<n[1] \div 256, n[1] % 256, n[2] \div 256, n[2] % 256>>

Limit32 == <<65535, 65535>>

\* the unsigned-integer encoding of a variant index
IndexBytes(i) ==
    IF ULe(i, USize(127)) THEN <<i[2]>>
    ELSE IF ULe(i, USize(255)) THEN <<204, i[2]>>
    ELSE IF ULe(i, USize(65535)) THEN <<205>> \o Field16(i)
    ELSE <<206>> \o Field32(i)

ArrayHeader(n) ==
    IF ULe(n, USize(15)) THEN <<144 + n[2]>>
    ELSE IF ULe(n, USize(65535)) THEN <<220>> \o Field16(n)
    ELSE <<221>> \o Field32(n)

MapHeader(n) ==
    IF ULe(n, USize(15)) THEN <<128 + n[2]>>
    ELSE IF ULe(n, USize(65535)) THEN <<222>> \o Field16(n)
    ELSE <<223>> \o Field32(n)

StrHeader(n) ==
    IF ULe(n, USize(31)) THEN <<160 + n[2]>>
    ELSE IF ULe(n, USize(255)) THEN <<217, n[2]>>
    ELSE IF ULe(n, USize(65535)) THEN <<218>> \o Field16(n)
    ELSE <<219>> \o Field32(n)

StrBytes(s) == BCat(BOf(StrHeader(BLen(s))), s)

\* the encodings of the values q, one after the other
RECURSIVE Concat(_)
Concat(q) == IF q = <<>> THEN <<>> ELSE BCat(Delivered(q[1]), Concat(Tail(q)))

\* (field-name string, value) pairs, in declaration order
RECURSIVE FieldPairs(_)
FieldPairs(q) ==
    IF q = <<>> THEN <<>>
    ELSE BCat(BCat(StrBytes(q[1].name), Delivered(q[1].y)), FieldPairs(Tail(q)))

(***************************************************************************)
(* C5: a variant is encoded by shape.  No payload: the unsigned encoding   *)
(* of the index i.  One payload: a 2-element array header, i, the payload. *)
(* n fields: an (n+1)-element array header, i, the fields in order.  k     *)
(* named fields: a 2-element array header, i, a k-entry map header, then   *)
(* (name string, value) pairs in declaration order and nothing more.  The  *)
(* sink holds a prefix of that at every moment, and all of it on Ok.       *)
(***************************************************************************)
VariantShapes == {"unit_variant", "newtype_variant", "tuple_variant", "struct_variant"}

VariantBytes(x) ==
    CASE x.t = "unit_variant" -> BOf(IndexBytes(x.index))
      [] x.t = "newtype_variant" ->
           BCat(BOf(ArrayHeader(USize(2)) \o IndexBytes(x.index)), Delivered(x.value))
      [] x.t = "tuple_variant" ->
           BCat(BOf(ArrayHeader(USize(Len(x.elems) + 1)) \o IndexBytes(x.index)),
                Concat(x.elems))
      [] x.t = "struct_variant" ->
           BCat(BOf(ArrayHeader(USize(2)) \o IndexBytes(x.index)
                    \o MapHeader(USize(Len(x.fields)))),
                FieldPairs(x.fields))

C5_VariantShapes ==
    root.t \in VariantShapes =>
        /\ IsPrefix(sunk, VariantBytes(root))
        /\ res = "Ok" => sunk = VariantBytes(root)
        /\ (res = "Ok" /\ root = UnitVariant(USize(1))) => Sunk = <<1>>
        /\ (res = "Ok" /\ root = NewtypeVariant(USize(0), IntV("usize", I64(42))))
              => Sunk = <<146, 0, 42>>
        /\ (res = "Ok" /\ root = TupleVariant(USize(2), <<IntV("i8", I64(-3)),
                                                          IntV("i8", I64(22))>>))
              => Sunk = <<147, 2, 253, 22>>
        /\ (res = "Ok" /\ root = StructVariant(USize(3), FieldsD))
              => sunk = BCat(BOf(<<146, 3, 130, 161, 97, 209, 35, 41, 161, 98, 172>>),
                             HelloWorld)

C5_Witness ==
    /\ root = StructVariant(USize(3), FieldsD)
    /\ res = "Ok"
    /\ ncalls = 10

(***************************************************************************)
(* C6: a sequence or map whose length n is known at its start.  The header *)
(* of n's size class (fixarray / fixmap to 15, array16 / map16 to 65535,   *)
(* array32 / map32 to 2^32-1, big-endian) reaches the sink before any      *)
(* element, and the elements follow in iteration order with nothing held   *)
(* back: at every moment the sink holds the header and all the elements    *)
(* serialized so far, and no container state is a buffer.                  *)
(***************************************************************************)
RECURSIVE AllKnown(_)
AllKnown(x) ==
    CASE x.t = "seq" ->
           x.known /\ \A i \in 1..Len(x.elems) : AllKnown(x.elems[i].e)
      [] x.t = "map" ->
           x.known /\ \A i \in 1..Len(x.entries) :
                         AllKnown(x.entries[i].k) /\ AllKnown(x.entries[i].y)
      [] OTHER -> TRUE

\* n copies of the byte string s
RECURSIVE Times(_, _)
Times(s, n) ==
    IF n = Zero THEN <<>>
    ELSE IF Len(s) = 1 THEN BRep(s[1][1], <<s[1][2][1] * n[2], s[1][2][2] * n[2]>>)
    ELSE BCat(s, Times(s, USub(n, One)))

\* the bytes the calls q the driver has still to make will deliver
RECURSIVE PendingBytes(_)
PendingBytes(q) ==
    IF q = <<>> THEN <<>>
    ELSE LET i == q[1]
             now == CASE i.op = "ser" -> Delivered(i.x)
                      [] i.op = "elt" ->
                           IF IsFixU(i.x) THEN BRep(i.x.v[4] % 256, i.n)
                           ELSE Times(Delivered(i.x), i.n)
                      [] i.op = "entry" ->
                           IF IsFixU(i.k) /\ IsFixU(i.y) /\ i.k.v = i.y.v
                           THEN BRep(i.k.v[4] % 256, UAdd(i.n, i.n))
                           ELSE Times(BCat(Delivered(i.k), Delivered(i.y)), i.n)
                      [] i.op = "val" -> Delivered(i.y)
                      [] OTHER -> <<>>
         IN  BCat(now, PendingBytes(Tail(q)))

KnownHeader(x) ==
    IF x.t = "seq" THEN ArrayHeader(Count(x.elems)) ELSE MapHeader(Count(x.entries))

Contents(x) ==
    IF x.t = "seq" THEN PendingBytes(Elts(x.elems)) ELSE PendingBytes(Entries(x.entries))

NoBuffer == \A i \in 1..Len(frames) : ~frames[i].buffered

C6_KnownLengthStreams ==
    (root.t \in {"seq", "map"} /\ AllKnown(root)) =>
        /\ NoBuffer
        /\ (res \in {"running", "Ok"} /\ ctl # <<Ser(root)>>) =>
              BCat(sunk, PendingBytes(ctl)) = BCat(BOf(KnownHeader(root)), Contents(root))
        /\ (res = "Ok" /\ root = Seq_(TRUE, FixArr)) => Sunk = <<148, 5, 8, 20, 204, 231>>
        /\ (root = Seq_(TRUE, Array16) /\ ~rejected /\ ctl # <<Ser(root)>>)
              => BSeq(BSub(sunk, Zero, USize(3))) = <<220, 0, 17>>

C6_Witness ==
    /\ root = Seq_(TRUE, Array16)
    /\ res = "running"
    /\ Len(ctl) = 10
    /\ ncalls = 9

(***************************************************************************)
(* C7: a string of L <= 4294967295 bytes is the header of the smallest     *)
(* length class (0xA0|L to 31, str8 and one length byte to 255, str16 and  *)
(* two big-endian bytes to 65535, else str32 and four) followed by exactly *)
(* its L bytes: "Hello World!" is 0xAC and its 12 bytes, a 44-byte string  *)
(* is 0xD9, 44 and its bytes.                                              *)
(***************************************************************************)
C7_StringLadder ==
    (root.t = "str" /\ ULe(BLen(root.s), Limit32)) =>
        /\ IsPrefix(sunk, BCat(BOf(StrHeader(BLen(root.s))), root.s))
        /\ ToBytes => res \in {"running", "Ok"}
        /\ res = "Ok" =>
              /\ sunk = BCat(BOf(StrHeader(BLen(root.s))), root.s)
              /\ BLen(sunk) = UAdd(BLen(root.s), USize(Len(StrHeader(BLen(root.s)))))
              /\ root.s = HelloWorld => BSeq(BSub(sunk, Zero, One)) = <<172>>
              /\ BLen(root.s) = USize(44) => BSeq(BSub(sunk, Zero, USize(2))) = <<217, 44>>

C7_Witness ==
    /\ root.t = "str"
    /\ BLen(root.s) = USize(65536)
    /\ res = "Ok"
    /\ BSeq(BSub(sunk, Zero, USize(5))) = <<219, 0, 1, 0, 0>>

(***************************************************************************)
(* C8: encoding a string, byte string, array or map of more than           *)
(* 4294967295 bytes or elements fails with TooBig and the sink receives    *)
(* nothing for it: the call on an oversize string, byte string or          *)
(* known-length container fails without a sink call and without touching   *)
(* any buffer, and an unknown-length container whose final count is too    *)
(* large ends in TooBig with neither header nor element bytes in the sink. *)
(***************************************************************************)
Oversize(x) ==
    \/ x.t \in {"str", "bytes"} /\ ULt(Limit32, BLen(x.s))
    \/ x.t = "seq" /\ ULt(Limit32, Count(x.elems))
    \/ x.t = "map" /\ ULt(Limit32, Count(x.entries))

KnownSize(x) == x.t \in {"seq", "map"} => x.known

C8_TooBigSendsNothing ==
    [][ /\ (Calling("ser") /\ Oversize(Head(ctl).x) /\ KnownSize(Head(ctl).x)) =>
              /\ res' = "TooBig"
              /\ sunk' = sunk
              /\ ncalls' = ncalls
              /\ frames' = frames
        /\ Oversize(root) =>
              /\ sunk' = <<>>
              /\ ncalls' = 0
              /\ res' \in {"running", "TooBig"}
              /\ ctl' = <<>> => res' = "TooBig" ]_vars

C8_Witness ==
    /\ root = Seq_(FALSE, Ones(TwoPow32))
    /\ res = "TooBig"
    /\ sunk = <<>>
    /\ ncalls = 0

(***************************************************************************)
(* C9: when the sink rejects a write, at any depth of the value, the       *)
(* encode call ends with the sink's error, the sink is not invoked again,  *)
(* and what the sink accepted is a prefix of the full encoding.            *)
(***************************************************************************)
C9_SinkRejection ==
    /\ after = 0
    /\ rejected => (res = "SinkErr" /\ ctl = <<>>)
    /\ res = "SinkErr" => rejected
    /\ rejected => (sink.limited /\ sink.left = 0)
    /\ IsPrefix(sunk, Delivered(root))

C9_Witness ==
    /\ rejected
    /\ root.t = "struct_variant"
    /\ root.fields # <<>>
    /\ ncalls = 4
    /\ res = "SinkErr"

(***************************************************************************)
(* C10: in from_bytes a read of k bytes at cursor p succeeds exactly when  *)
(* p + k <= the slice's length; it then returns the bytes [p, p+k) and     *)
(* moves the cursor to p + k; otherwise the decode fails with EndOfStream  *)
(* and the cursor stays.  The cursor never passes the end of the slice,    *)
(* and decoding the empty slice fails with EndOfStream.                    *)
(***************************************************************************)
C10_ReadSemantics ==
    [][ /\ rd'.n # rd.n =>
              /\ rd'.n = rd.n + 1
              /\ rd'.p = position
              /\ rd'.ok <=> ULe(UAdd(position, rd'.k), BLen(bytes))
              /\ rd'.ok =>
                    /\ BLen(rd'.got) = rd'.k
                    /\ bytes = BCat(BCat(BSub(bytes, Zero, position), rd'.got),
                                    BSub(bytes, UAdd(position, rd'.k),
                                         USub(BLen(bytes), UAdd(position, rd'.k))))
                    /\ position' = UAdd(position, rd'.k)
              /\ ~rd'.ok => (dres' = "EndOfStream" /\ position' = position)
        /\ rd'.n = rd.n => (position' = position \/ position' = Zero)
        /\ ULe(position', BLen(bytes'))
        /\ (bytes' = <<>> /\ dres' \notin {"idle", "running"}) => dres' = "EndOfStream" ]_vars

C10_Witness ==
    /\ rd.n = 2
    /\ ~rd.ok
    /\ ULt(Zero, position)
    /\ ULt(position, BLen(bytes))
    /\ dres = "EndOfStream"

(***************************************************************************)
(* C11: a sequence or map encoded through the unknown-length path (started *)
(* with no length, elements or entries added one by one, then ended)       *)
(* delivers exactly the bytes of the same elements encoded through the     *)
(* known-length path with the true length: the header written at the end   *)
(* carries the number of elements of a sequence, of entries of a map.      *)
(***************************************************************************)
Containers == {"seq", "map"}

\* the same elements, started with the true length
Known(x) == [x EXCEPT !.known = TRUE]

C11_UnknownEqualsKnown ==
    (root.t \in Containers /\ ~root.known /\ ToBytes /\ res = "Ok") =>
        /\ sunk = Delivered(Known(root))
        /\ IsPrefix(BOf(KnownHeader(root)), sunk)

(***************************************************************************)
(* C12: while a container is in the Buffered state no step between its     *)
(* start and its end invokes the sink, whatever is serialized inside it.   *)
(* The end of the outermost Buffered container hands the sink the header   *)
(* of the tallied size and then the buffer verbatim, in two calls, or      *)
(* nothing when the size is past the largest class.  A failure of an       *)
(* element ends the encode call, so the sink has received nothing for the  *)
(* container.                                                              *)
(***************************************************************************)
Buffering == \E i \in 1..Len(frames) : frames[i].buffered

\* what the end call on the Buffered state f offers the sink
EndHeader(f, op) ==
    BOf(IF op = "seq_end" THEN ArrayHeader(f.size) ELSE MapHeader(f.size))

Flushed(f, op) == BCat(EndHeader(f, op), f.buffer)

C12_BufferedIsPrivate ==
    [][ /\ (Buffering /\ Buffering') =>
              /\ sunk' = sunk
              /\ ncalls' = ncalls
              /\ (res = "running" /\ res' \notin {"running", "Ok"}) => ctl' = <<>>
        /\ (Buffering /\ ~Buffering') =>
              LET f  == frames[Len(frames)]
                  op == Head(ctl).op
              IN  /\ f.buffered
                  /\ op \in {"seq_end", "map_end"}
                  /\ frames' = SubSeq(frames, 1, Len(frames) - 1)
                  /\ IF ULt(Limit32, f.size)
                     THEN res' = "TooBig" /\ sunk' = sunk /\ ncalls' = ncalls
                     ELSE /\ IsPrefix(sunk', BCat(sunk, Flushed(f, op)))
                          /\ res' = "running" =>
                                /\ sunk' = BCat(sunk, Flushed(f, op))
                                /\ ncalls' = ncalls + 2
                          /\ res' # "running" =>
                                /\ res' = "SinkErr"
                                /\ sunk' \in {sunk, BCat(sunk, EndHeader(f, op))}
        /\ (root.t \in Containers /\ ~root.known /\ res' \in {"Panic", "TooBig"}) =>
              (sunk' = <<>> /\ ncalls' = 0) ]_vars

C12_Witness ==
    /\ root.t = "seq"
    /\ ~root.known
    /\ Len(root.elems) = 3
    /\ root.elems[2].e.t = "seq"
    /\ ~root.elems[2].e.known
    /\ res = "Ok"
    /\ ncalls = 2
    /\ Sunk = <<147, 9, 146, 1, 204, 200, 130, 192, 195>>

====
